---- MODULE Spec2Model ----
(***************************************************************************)
(* Model of the provisioning / teardown engine of the OpenFrame client:    *)
(*   - ToolUninstallService (services/tool_uninstall_service.rs)           *)
(*   - DmgExtractor         (platform/dmg_extractor.rs)                    *)
(* Every async function is cut at its await points: one action per step.   *)
(* The collaborators (registry, kill service, command resolver, directory  *)
(* manager) and the operating system answer nondeterministically.          *)
(***************************************************************************)
EXTENDS Integers, Sequences, FiniteSets, TLC

VARIABLES
    platform,         \* cfg!(target_os): "macos" or "other"
    \* ---- ToolUninstallService
    registry,         \* what InstalledToolsService::get_all returns
    fs,               \* the directories (paths) that exist on disk
    ulog,             \* history: the steps performed, in order
    upc,              \* per caller: position in uninstall_all / uninstall_tool
    installed_tools,  \* per caller: the local `installed_tools`
    idx,              \* per caller: position of the for loop (1-based)
    uresult,          \* per caller: Option of the value uninstall_all returned
    \* ---- DmgExtractor
    tmp_files,        \* ids whose temp image file <id>.dmg exists
    mount_dirs,       \* ids whose mount point directory mnt_<id> exists
    mounted,          \* ids whose image is attached at its mount point
    dpc,              \* per call: position in extract_all
    source_path,      \* per call: argument source_path (Option of a path)
    dmg_id,           \* per call: Option of the local `dmg_id`
    dest,             \* per call: the entry target_dir/<source name>
    dest0,            \* per call: that entry as it was before the call
    copy_result,      \* per call: Option of the local `result`
    cleanup_calls,    \* per call: attempts and outcomes of the cleanup steps
    dresult,          \* per call: Option of the value extract_all returned
    \* ---- user_session::launch_as_user
    exe_exists,       \* does Path::new(executable).exists() hold
    l_exe,            \* argument executable (a path)
    l_args,           \* argument args
    l_user,           \* argument user (a ConsoleUser)
    lpc,              \* position in launch_as_user
    spawns,           \* history: the commands spawned, with their results
    lresult,          \* Option of the value launch_as_user returned
    \* ---- user_session::get_console_user and preferences_writer::write
    console,          \* what `stat -f %Su /dev/console` answers
    store,            \* per user and key: the value in the preference store
    store0,           \* store when the call started
    p_op,             \* the operation called: "get_console_user" or "write"
    p_prefs,          \* argument prefs of write: a sequence of (key, value)
    ppc,              \* position in the call
    p_name,           \* local username of get_console_user
    p_user,           \* the value get_console_user returned
    p_i,              \* index of the pair the loop of write is at
    plog,             \* history: the subprocesses this call ran, with outcomes
    earlier,          \* history: the calls that returned before this one
    presult,          \* Option of the value write returned
    \* ---- preferences_writer::args_to_pairs
    a_args,           \* argument args
    a_i,              \* local i (counted from 0)
    a_result,         \* local result
    apc,              \* position in args_to_pairs
    \* ---- DownloadConfiguration::is_folder_extraction
    f_name,           \* field target_file_name
    fpc,              \* position in is_folder_extraction
    f_result,         \* Option of the value is_folder_extraction returned
    \* ---- the two bundle resolvers applied to one executable path
    r_path,           \* the executable path
    r_delete,         \* Option of what remove_macos_app_bundle located
    r_open            \* Option of what extract_app_bundle_path returned

uvars == <<registry, fs, ulog, upc, installed_tools, idx, uresult>>
dvars == <<tmp_files, mount_dirs, mounted, dpc, source_path, dmg_id, dest,
           dest0, copy_result, cleanup_calls, dresult>>
lvars == <<exe_exists, l_exe, l_args, l_user, lpc, spawns, lresult>>
pvars == <<console, store, store0, p_op, p_prefs, ppc, p_name, p_user, p_i,
           plog, earlier, presult>>
avars == <<a_args, a_i, a_result, apc>>
fvars == <<f_name, fpc, f_result>>
rvars == <<r_path, r_delete, r_open>>
vars == <<platform, uvars, dvars, lvars, pvars, avars, fvars, rvars>>

\* What the actions of each component leave alone
NotUninstall == <<platform, dvars, lvars, pvars, avars, fvars, rvars>>
NotDmg == <<platform, uvars, lvars, pvars, avars, fvars, rvars>>
NotLaunch == <<platform, uvars, dvars, pvars, avars, fvars, rvars>>
NotPrefs == <<platform, uvars, dvars, lvars, avars, fvars, rvars>>
NotArgs == <<platform, uvars, dvars, lvars, pvars, fvars, rvars>>
NotFolder == <<platform, uvars, dvars, lvars, pvars, avars, rvars>>
NotResolvers == <<platform, uvars, dvars, lvars, pvars, avars, fvars>>

(***************************************************************************)
(* Bounds                                                                  *)
(***************************************************************************)
MaxTools == 3
MaxPrefs == 2
MaxArgs == 3
MaxNameLen == 5
MaxDepth == 3

(***************************************************************************)
(* Option<T> is a sequence of length 0 or 1.                               *)
(***************************************************************************)
None == <<>>
Some(v) == <<v>>
IsSome(o) == Len(o) = 1
Unwrap(o) == o[1]

Platforms == {"macos", "other"}

(***************************************************************************)
(* Strings the code inspects are sequences of characters.                  *)
(***************************************************************************)
LowerChar(ch) ==
    CASE ch = "F" -> "f"
      [] ch = "L" -> "l"
      [] ch = "E" -> "e"
      [] ch = "T" -> "t"
      [] OTHER -> ch

to_lowercase(s) == [i \in 1..Len(s) |-> LowerChar(s[i])]

contains(s, pat) ==
    \E i \in 0..(Len(s) - Len(pat)) : SubSeq(s, i + 1, i + Len(pat)) = pat

FleetPattern == <<"f", "l", "e", "e", "t">>

\* Mutant: the identifier is searched as it is written
IsFleetTool_CaseSensitive(tool) == contains(tool.tool_agent_id, FleetPattern)

\* tool_uninstall_service.rs:83
IsFleetTool(tool) == contains(to_lowercase(tool.tool_agent_id), FleetPattern)

(***************************************************************************)
(* Paths are sequences of components; a component is a character sequence. *)
(***************************************************************************)
DotDot == <<".", ".">>

\* Path::file_name
file_name(p) ==
    IF Len(p) = 0 THEN None
    ELSE IF p[Len(p)] = DotDot THEN None
    ELSE Some(p[Len(p)])

LastDot(n) ==
    LET ds == {i \in 1..Len(n) : n[i] = "."}
    IN IF ds = {} THEN 0 ELSE CHOOSE i \in ds : \A j \in ds : j <= i

\* Path::extension: none without a dot, or when the only dot leads the name
extension(p) ==
    LET f == file_name(p)
    IN IF ~IsSome(f) THEN None
       ELSE LET n == Unwrap(f)
                d == LastDot(n)
            IN IF d <= 1 THEN None ELSE Some(SubSeq(n, d + 1, Len(n)))

AppExt == <<"a", "p", "p">>

\* Path::ancestors, nearest first: the path itself, then each parent
Ancestor(p, k) == SubSeq(p, 1, k)

\* tool_uninstall_service.rs:178-179, ancestors().find(extension == "app")
FindAppBundle(p) ==
    LET ks == {k \in 1..Len(p) : extension(Ancestor(p, k)) = Some(AppExt)}
    IN IF ks = {} THEN None
       ELSE Some(Ancestor(p, CHOOSE k \in ks : \A j \in ks : j <= k))

IsPrefix(a, b) == Len(a) <= Len(b) /\ SubSeq(b, 1, Len(a)) = a

\* fs::remove_dir_all: the directory and everything below it
RemoveDirAll(files, dir) == {q \in files : ~IsPrefix(dir, q)}

(***************************************************************************)
(* InstalledTool records (models/InstalledTool, read through the registry) *)
(***************************************************************************)
DirA == <<"A">>
AppM == <<"M", ".", "a", "p", "p">>
ExeM == <<"m">>
PathInBundle == <<DirA, AppM, ExeM>>
PathPlain == <<<<"o">>, <<"t">>>>
BundleM == <<DirA, AppM>>

UninstallArgs == <<"--uninstall">>

ToolPool ==
    { [tool_agent_id |-> <<"f", "l", "e", "e", "t">>,
       installation_type |-> "Standard",
       executable_path |-> Some(PathPlain),
       uninstallation_command_args |-> Some(UninstallArgs)],
      [tool_agent_id |-> <<"m">>,
       installation_type |-> "GuiApp",
       executable_path |-> Some(PathInBundle),
       uninstallation_command_args |-> Some(UninstallArgs)],
      [tool_agent_id |-> <<"x", "F", "L", "e", "E", "T">>,
       installation_type |-> "GuiApp",
       executable_path |-> Some(PathInBundle),
       uninstallation_command_args |-> None],
      [tool_agent_id |-> <<"n">>,
       installation_type |-> "GuiApp",
       executable_path |-> None,
       uninstallation_command_args |-> Some(<<>>)],
      [tool_agent_id |-> <<"f", "l", "e", "t">>,
       installation_type |-> "GuiApp",
       executable_path |-> Some(PathPlain),
       uninstallation_command_args |-> Some(UninstallArgs)] }

SeqsUpTo(S, n) == UNION {[1..k -> S] : k \in 0..n}

Registries == SeqsUpTo(ToolPool, MaxTools)

(***************************************************************************)
(* Result<()> of uninstall_tool / uninstall_all.  `tool` is the            *)
(* tool_agent_id the outermost context names, `step` the failing step.     *)
(***************************************************************************)
ExitCodes == {0, 1}
Outputs == {"", "text"}

OkResult ==
    [ok |-> TRUE, tool |-> None, step |-> "none",
     status |-> 0, stdout |-> "", stderr |-> ""]

Err(step) ==
    [ok |-> FALSE, tool |-> None, step |-> step,
     status |-> 0, stdout |-> "", stderr |-> ""]

\* Mutant: stdout is formatted twice, stderr is lost
ExitStatusError_NoStderr(status, out, err) ==
    [ok |-> FALSE, tool |-> None, step |-> "exit_status",
     status |-> status, stdout |-> out, stderr |-> out]

\* tool_uninstall_service.rs:136-142
ExitStatusError(status, out, err) ==
    [ok |-> FALSE, tool |-> None, step |-> "exit_status",
     status |-> status, stdout |-> out, stderr |-> err]

\* tool_uninstall_service.rs:60-61, with_context naming the tool
UninstallAllError(tool, cause) ==
    [cause EXCEPT !.tool = Some(tool.tool_agent_id)]

(***************************************************************************)
(* History of the steps performed                                          *)
(***************************************************************************)
\* `data` is the Output (status, stdout, stderr) of a command that exited
\* nonzero: the only case in which the code reads it beyond logging
EvData(c, i, step, ok, data) ==
    [caller |-> c, tool |-> i, step |-> step, ok |-> ok, data |-> data]

Ev(c, i, step, ok) == EvData(c, i, step, ok, <<>>)

CurTool(c) == installed_tools[c][idx[c]]

Callers == DOMAIN upc

(***************************************************************************)
(* Decisions of uninstall_all / uninstall_tool                             *)
(***************************************************************************)
\* Mutant: an empty registry is reported as a failure
AfterGetAll_EmptyFails(ok, n) == IF ~ok \/ n = 0 THEN "fail" ELSE "loop"

\* tool_uninstall_service.rs:46-52
AfterGetAll(ok, n) == IF ~ok THEN "fail" ELSE IF n = 0 THEN "empty" ELSE "loop"

\* Mutant: a failed tool is skipped and the loop goes on
OnToolResult_Continue(ok, i, n) ==
    IF i < n THEN "next" ELSE IF ok THEN "finish" ELSE "abort"

\* tool_uninstall_service.rs:56-64: `?` aborts the for loop
OnToolResult(ok, i, n) ==
    IF ~ok THEN "abort" ELSE IF i < n THEN "next" ELSE "finish"

\* Mutant: the result of the stop is dropped
AfterStop_Ignore(ok) == "aux"

\* tool_uninstall_service.rs:78-79
AfterStop(ok) == IF ok THEN "aux" ELSE "fail"

\* tool_uninstall_service.rs:85-86
AfterStopAsset(ok) == IF ok THEN "args" ELSE "fail"

\* Mutant: `Some(args)` without the is_empty guard
HasUninstallArgs_NoEmptyGuard(tool) == IsSome(tool.uninstallation_command_args)

\* tool_uninstall_service.rs:93-95
HasUninstallArgs(tool) ==
    /\ IsSome(tool.uninstallation_command_args)
    /\ Len(Unwrap(tool.uninstallation_command_args)) > 0

\* Mutant: the error of the resolver is dropped
AfterProcess_Ignore(ok) == "path"

\* tool_uninstall_service.rs:103-105
AfterProcess(ok) == IF ok THEN "path" ELSE "fail"

\* Mutant: a missing executable is an error
AfterPathCheck_MissingFails(exists) == IF exists THEN "exec" ELSE "fail"

\* tool_uninstall_service.rs:112-115
AfterPathCheck(exists) == IF exists THEN "exec" ELSE "return_ok"

\* tool_uninstall_service.rs:131-149
AfterExit(status) == IF status = 0 THEN "cleanup" ELSE "fail"

\* Mutant: the iterator is advanced twice after a successful tool
FinishTool_SkipsNext(c, res, lg) ==
    LET n == Len(installed_tools[c])
        d == OnToolResult(res.ok, idx[c], n)
    IN /\ ulog' = Append(lg, Ev(c, idx[c], "return", res.ok))
       /\ idx' = IF d = "next"
                 THEN [idx EXCEPT ![c] = IF @ + 2 <= n THEN @ + 2 ELSE @ + 1]
                 ELSE idx
       /\ upc' = [upc EXCEPT ![c] = IF d = "next" THEN "stop" ELSE "done"]
       /\ uresult' =
            CASE d = "next" -> uresult
              [] d = "finish" -> [uresult EXCEPT ![c] = Some(OkResult)]
              [] d = "abort" ->
                    [uresult EXCEPT
                        ![c] = Some(UninstallAllError(CurTool(c), res))]

\* The end of one uninstall_tool call inside the loop of uninstall_all
FinishTool(c, res, lg) ==
    LET d == OnToolResult(res.ok, idx[c], Len(installed_tools[c]))
    IN /\ ulog' = Append(lg, Ev(c, idx[c], "return", res.ok))
       /\ idx' = IF d = "next" THEN [idx EXCEPT ![c] = @ + 1] ELSE idx
       /\ upc' = [upc EXCEPT ![c] = IF d = "next" THEN "stop" ELSE "done"]
       /\ uresult' =
            CASE d = "next" -> uresult
              [] d = "finish" -> [uresult EXCEPT ![c] = Some(OkResult)]
              [] d = "abort" ->
                    [uresult EXCEPT
                        ![c] = Some(UninstallAllError(CurTool(c), res))]

\* A step that neither ends the tool nor the batch
Goto(c, to, lg) ==
    /\ ulog' = lg
    /\ upc' = [upc EXCEPT ![c] = to]
    /\ UNCHANGED <<idx, uresult>>

\* Mutant: the procedure of a tool is left running after its stop and the
\* loop goes on to the next tool
Step_NotAwaited(c, to, failure, lg) ==
    IF to = "fail" THEN FinishTool(c, failure, lg)
    ELSE IF to = "return_ok" THEN FinishTool(c, OkResult, lg)
    ELSE IF to = "aux" /\ idx[c] < Len(installed_tools[c])
    THEN /\ ulog' = lg
         /\ idx' = [idx EXCEPT ![c] = @ + 1]
         /\ upc' = [upc EXCEPT ![c] = "stop"]
         /\ UNCHANGED uresult
    ELSE Goto(c, to, lg)

\* tool_uninstall_service.rs:60-61 and the `?` of uninstall_tool: each step
\* is awaited, an error returns from the tool
Step(c, to, failure, lg) ==
    IF to = "fail" THEN FinishTool(c, failure, lg)
    ELSE IF to = "return_ok" THEN FinishTool(c, OkResult, lg)
    ELSE Goto(c, to, lg)

(***************************************************************************)
(* uninstall_all, lines 43-54                                              *)
(***************************************************************************)
GetAll ==
    \E c \in Callers :
        /\ upc[c] = "idle"
        /\ \E ok \in BOOLEAN :
              LET d == AfterGetAll(ok, Len(registry))
              IN /\ ulog' = Append(ulog, Ev(c, 0, "get_all", ok))
                 /\ installed_tools' =
                        IF ok THEN [installed_tools EXCEPT ![c] = registry]
                        ELSE installed_tools
                 /\ idx' = IF d = "loop" THEN [idx EXCEPT ![c] = 1] ELSE idx
                 /\ upc' = [upc EXCEPT ![c] = IF d = "loop" THEN "stop" ELSE "done"]
                 /\ uresult' =
                        CASE d = "loop" -> uresult
                          [] d = "empty" -> [uresult EXCEPT ![c] = Some(OkResult)]
                          [] d = "fail" ->
                                [uresult EXCEPT ![c] = Some(Err("get_all"))]
        /\ UNCHANGED <<NotUninstall, registry, fs>>

(***************************************************************************)
(* uninstall_tool, lines 73-152                                            *)
(***************************************************************************)
StopToolProcess ==
    \E c \in Callers :
        /\ upc[c] = "stop"
        /\ \E ok \in BOOLEAN :
              Step(c, AfterStop(ok), Err("stop"),
                   Append(ulog, Ev(c, idx[c], "stop", ok)))
        /\ UNCHANGED <<NotUninstall, registry, fs, installed_tools>>

StopAsset ==
    \E c \in Callers :
        /\ upc[c] = "aux"
        /\ IF IsFleetTool(CurTool(c))
           THEN \E ok \in BOOLEAN :
                    Step(c, AfterStopAsset(ok), Err("stop_asset"),
                         Append(ulog, Ev(c, idx[c], "aux_stop", ok)))
           ELSE Goto(c, "args", ulog)
        /\ UNCHANGED <<NotUninstall, registry, fs, installed_tools>>

CheckUninstallArgs ==
    \E c \in Callers :
        /\ upc[c] = "args"
        /\ Goto(c, IF HasUninstallArgs(CurTool(c)) THEN "resolve" ELSE "cleanup",
                ulog)
        /\ UNCHANGED <<NotUninstall, registry, fs, installed_tools>>

ProcessParams ==
    \E c \in Callers :
        /\ upc[c] = "resolve"
        /\ \E ok \in BOOLEAN :
              Step(c, AfterProcess(ok), Err("process"),
                   Append(ulog, Ev(c, idx[c], "resolve", ok)))
        /\ UNCHANGED <<NotUninstall, registry, fs, installed_tools>>

CheckAgentPath ==
    \E c \in Callers :
        /\ upc[c] = "path"
        /\ \E exists \in BOOLEAN :
              Step(c, AfterPathCheck(exists), Err("agent_path"),
                   Append(ulog, Ev(c, idx[c], "path_check", exists)))
        /\ UNCHANGED <<NotUninstall, registry, fs, installed_tools>>

ExecuteCommand ==
    \E c \in Callers :
        /\ upc[c] = "exec"
        /\ \/ FinishTool(c, Err("spawn"),
                         Append(ulog, Ev(c, idx[c], "spawn", FALSE)))
           \/ \E status \in ExitCodes, out \in Outputs, err \in Outputs :
                 Step(c, AfterExit(status), ExitStatusError(status, out, err),
                      Append(ulog, EvData(c, idx[c], "exec", status = 0,
                                IF status = 0 THEN <<>>
                                ELSE <<status, out, err>>)))
        /\ UNCHANGED <<NotUninstall, registry, fs, installed_tools>>

\* Mutant: a bundle that could not be deleted fails the tool
CleanupResult_Propagate(ok) == IF ok THEN OkResult ELSE Err("remove_dir_all")

\* tool_uninstall_service.rs:191-195 and 149-151: the result of
\* remove_dir_all is logged, cleanup_gui_app_bundle returns nothing, and
\* uninstall_tool returns Ok(())
CleanupResult(ok) == OkResult

\* cleanup_gui_app_bundle (158-173) with remove_macos_app_bundle (176-196),
\* then `return Ok(())` (lines 98 and 151)
CleanupGuiAppBundle ==
    \E c \in Callers :
        /\ upc[c] = "cleanup"
        /\ LET tool == CurTool(c)
               lg == Append(ulog, Ev(c, idx[c], "cleanup", TRUE))
               bundle == IF IsSome(tool.executable_path)
                         THEN FindAppBundle(Unwrap(tool.executable_path))
                         ELSE None
           IN IF /\ tool.installation_type = "GuiApp"
                 /\ platform = "macos"
                 /\ IsSome(bundle)
                 /\ Unwrap(bundle) \in fs
              THEN \E ok \in BOOLEAN :
                      /\ fs' = IF ok THEN RemoveDirAll(fs, Unwrap(bundle)) ELSE fs
                      /\ FinishTool(c, CleanupResult(ok),
                            Append(lg, Ev(c, idx[c], "remove_dir_all", ok)))
              ELSE /\ fs' = fs
                   /\ FinishTool(c, OkResult, lg)
        /\ UNCHANGED <<NotUninstall, registry, installed_tools>>


(***************************************************************************)
(* DmgExtractor (platform/dmg_extractor.rs)                                *)
(***************************************************************************)
\* uuid::Uuid::new_v4: a value no other call holds
Uuids == {"u1", "u2"}

\* source_path: none, a bundle at the root of the image, a nested path,
\* and a path that has no file name
SourcePaths == {None, Some(<<AppM>>), Some(<<DirA, ExeM>>), Some(<<DotDot>>)}

TempDir == <<"T">>

\* dmg_extractor.rs:27
MountPoint(id) == <<TempDir, <<"m", "n", "t", "_", id>>>>

\* dmg_extractor.rs:38-48
Source(c) ==
    IF IsSome(source_path[c])
    THEN MountPoint(Unwrap(dmg_id[c])) \o Unwrap(source_path[c])
    ELSE MountPoint(Unwrap(dmg_id[c]))

\* The entry of the target directory named like the source
NoEntry == [kind |-> "none", content |-> "none"]
OldEntries == {[kind |-> k, content |-> "old"] : k \in {"file", "dir", "symlink"}}
NewEntry(kind) == [kind |-> kind, content |-> "new"]

DOk == [ok |-> TRUE, step |-> "none"]
DErr(step) == [ok |-> FALSE, step |-> step]

NoCleanup == [mount |-> 0, mount_ok |-> FALSE,
              copy |-> 0, unmount |-> 0, unmount_ok |-> FALSE,
              remove |-> 0, remove_ok |-> FALSE]

Calls == DOMAIN dpc

UsedIds == {Unwrap(dmg_id[c]) : c \in {x \in Calls : IsSome(dmg_id[x])}}

\* Mutant: the name is not unique, a call may draw an id another call has
FreshIds_Reused == Uuids

\* dmg_extractor.rs:25: Uuid::new_v4() is an id no other call has
FreshIds == Uuids \ UsedIds

\* dmg_extractor.rs:71-73: a failed unmount is logged, nothing else
AfterUnmount(ok) == "rmtemp"

\* Mutant: a cleanup failure replaces the copy result
ExtractAllResult_CleanupWins(copy, unmount_ok, remove_ok) ==
    IF ~unmount_ok THEN DErr("unmount")
    ELSE IF ~remove_ok THEN DErr("remove_file")
    ELSE copy

\* dmg_extractor.rs:85
ExtractAllResult(copy, unmount_ok, remove_ok) == copy

DReturn(c, res) ==
    /\ dpc' = [dpc EXCEPT ![c] = "done"]
    /\ dresult' = [dresult EXCEPT ![c] = Some(res)]

\* Mutant: the body for macOS is built for every platform
Supported_Everywhere(p) == TRUE

\* dmg_extractor.rs:19 and 88: cfg(target_os = "macos") selects the body
Supported(p) == p = "macos"

\* extract_all, not(target_os = "macos"): lines 88-91
ExtractAllUnsupported ==
    \E c \in Calls :
        /\ dpc[c] = "idle"
        /\ ~Supported(platform)
        /\ DReturn(c, DErr("unsupported"))
        /\ UNCHANGED <<NotDmg, dest0, tmp_files, mount_dirs, mounted, source_path,
                       dmg_id, dest, copy_result, cleanup_calls>>

\* extract_all lines 24-33: fresh id, fs::write of the temp image file.
\* A failed write may have created the file already.
WriteTempFile ==
    \E c \in Calls :
        /\ dpc[c] = "idle"
        /\ Supported(platform)
        /\ \E id \in FreshIds :
              /\ dmg_id' = [dmg_id EXCEPT ![c] = Some(id)]
              /\ \/ /\ tmp_files' = tmp_files \cup {id}
                    /\ dpc' = [dpc EXCEPT ![c] = "mount"]
                    /\ UNCHANGED dresult
                 \/ /\ tmp_files' \in {tmp_files, tmp_files \cup {id}}
                    /\ DReturn(c, DErr("write"))
        /\ UNCHANGED <<NotDmg, dest0, mount_dirs, mounted, source_path, dest,
                       copy_result, cleanup_calls>>

\* Mutant: the result of mount is dropped, the copy goes ahead
AfterMount_Ignore(ok) == "preclean"

\* dmg_extractor.rs:35-36: `?` on mount
AfterMount(ok) == IF ok THEN "preclean" ELSE "fail"

\* mount, lines 94-119, and the `?` of line 35-36
Mount ==
    \E c \in Calls :
        /\ dpc[c] = "mount"
        /\ LET id == Unwrap(dmg_id[c])
           IN \E why \in {"create_dir_all", "attach", "none"} :
                LET ok == why = "none"
                IN /\ cleanup_calls' = [cleanup_calls EXCEPT
                          ![c].mount = @ + 1, ![c].mount_ok = ok]
                   \* create_dir_all came first: the directory exists
                   \* unless it was the step that failed
                   /\ mount_dirs' = IF why = "create_dir_all" THEN mount_dirs
                                    ELSE mount_dirs \cup {id}
                   /\ mounted' = IF ok THEN mounted \cup {id} ELSE mounted
                   /\ IF AfterMount(ok) = "fail"
                      THEN DReturn(c, DErr(why))
                      ELSE /\ dpc' = [dpc EXCEPT ![c] = "preclean"]
                           /\ UNCHANGED dresult
        /\ UNCHANGED <<NotDmg, dest0, tmp_files, source_path, dmg_id, dest,
                       copy_result>>

\* lines 50-59: the results of remove_file / remove_dir_all are dropped.
\* remove_dir_all of a regular file fails (not a directory).
RemoveExisting ==
    \E c \in Calls :
        /\ dpc[c] = "preclean"
        /\ IF IsSome(file_name(Source(c))) /\ dest[c].kind # "none"
           THEN \E ok \in (IF dest[c].kind = "file" THEN {FALSE} ELSE BOOLEAN) :
                    dest' = [dest EXCEPT ![c] = IF ok THEN NoEntry ELSE @]
           ELSE UNCHANGED dest
        /\ dpc' = [dpc EXCEPT ![c] = "copy"]
        /\ UNCHANGED <<NotDmg, dest0, tmp_files, mount_dirs, mounted, source_path,
                       dmg_id, copy_result, cleanup_calls, dresult>>

\* What `cp -R source target_dir` leaves at target_dir/<name> when it
\* succeeds for a source of kind `sk`; the empty set when it cannot succeed.
\* A file is overwritten, a directory is merged into, a symlink is followed.
CopyOutcomes(old, sk) ==
    CASE old.kind = "none" -> {NewEntry(sk)}
      [] old.kind = "file" ->
            IF sk = "file" THEN {NewEntry("file")} ELSE {}
      [] old.kind = "dir" ->
            IF sk = "dir" THEN {[kind |-> "dir", content |-> "mixed"]} ELSE {}
      [] old.kind = "symlink" -> {old}

\* copy_recursive, lines 144-162, and lines 63-69
CopyRecursive ==
    \E c \in Calls :
        /\ dpc[c] = "copy"
        /\ cleanup_calls' = [cleanup_calls EXCEPT ![c].copy = @ + 1]
        /\ \/ /\ copy_result' = [copy_result EXCEPT ![c] = Some(DErr("copy"))]
              /\ UNCHANGED dest
           \/ /\ copy_result' = [copy_result EXCEPT ![c] = Some(DOk)]
              /\ IF IsSome(file_name(Source(c)))
                 THEN \E sk \in {"file", "dir"} :
                        \E e \in CopyOutcomes(dest[c], sk) :
                            dest' = [dest EXCEPT ![c] = e]
                 ELSE UNCHANGED dest
        /\ dpc' = [dpc EXCEPT ![c] = "unmount"]
        /\ UNCHANGED <<NotDmg, dest0, tmp_files, mount_dirs, mounted, source_path,
                       dmg_id, dresult>>

\* unmount, lines 122-141, called at line 71: after a successful detach the
\* result of remove_dir is dropped
Unmount ==
    \E c \in Calls :
        /\ dpc[c] = "unmount"
        /\ LET id == Unwrap(dmg_id[c])
           IN \E ok \in BOOLEAN :
                /\ cleanup_calls' = [cleanup_calls EXCEPT
                        ![c].unmount = @ + 1, ![c].unmount_ok = ok]
                /\ mounted' = IF ok THEN mounted \ {id} ELSE mounted
                /\ mount_dirs' \in
                        IF ok THEN {mount_dirs, mount_dirs \ {id}}
                        ELSE {mount_dirs}
                /\ IF AfterUnmount(ok) = "rmtemp"
                   THEN /\ dpc' = [dpc EXCEPT ![c] = "rmtemp"]
                        /\ UNCHANGED dresult
                   ELSE DReturn(c, DErr("unmount"))
        /\ UNCHANGED <<NotDmg, dest0, tmp_files, source_path, dmg_id, dest,
                       copy_result>>

\* lines 74-85: fs::remove_file of the temp image, then `result` is returned
RemoveTempFile ==
    \E c \in Calls :
        /\ dpc[c] = "rmtemp"
        /\ LET id == Unwrap(dmg_id[c])
           IN \E ok \in BOOLEAN :
                /\ cleanup_calls' = [cleanup_calls EXCEPT
                        ![c].remove = @ + 1, ![c].remove_ok = ok]
                /\ tmp_files' = IF ok THEN tmp_files \ {id} ELSE tmp_files
                /\ DReturn(c, ExtractAllResult(Unwrap(copy_result[c]),
                                  cleanup_calls[c].unmount_ok, ok))
        /\ UNCHANGED <<NotDmg, dest0, mount_dirs, mounted, source_path, dmg_id,
                       dest, copy_result>>

DInit(calls) ==
    /\ tmp_files = {}
    /\ mount_dirs = {}
    /\ mounted = {}
    /\ dpc = [c \in calls |-> "idle"]
    /\ source_path \in [calls -> SourcePaths]
    /\ dmg_id = [c \in calls |-> None]
    /\ dest \in [calls -> {NoEntry} \cup OldEntries]
    \* without a source_path the source is named mnt_<fresh id>: the target
    \* directory holds no entry of that name
    /\ \A c \in calls : source_path[c] = None => dest[c] = NoEntry
    /\ dest0 = dest
    /\ copy_result = [c \in calls |-> None]
    /\ cleanup_calls = [c \in calls |-> NoCleanup]
    /\ dresult = [c \in calls |-> None]


(***************************************************************************)
(* Console Session Bridge: launch_as_user (platform/user_session/macos.rs) *)
(***************************************************************************)
DotApp == <<".", "a", "p", "p">>

\* str::ends_with
ends_with(s, suffix) ==
    /\ Len(s) >= Len(suffix)
    /\ SubSeq(s, Len(s) - Len(suffix) + 1, Len(s)) = suffix

AppH == <<"H", ".", "a", "p", "p">>

\* Executables: in a bundle, outside any, in a nested bundle, a bundle
\* itself, below a directory named ".app", below "xapp" (no dot), and a
\* path that ends in ".."
ExePaths ==
    { PathInBundle,
      PathPlain,
      <<AppM, <<"C">>, AppH, <<"h">>>>,
      BundleM,
      <<DotApp, ExeM>>,
      <<<<"x", "a", "p", "p">>, ExeM>>,
      <<DirA, AppM, DotDot>> }

ArgLists == {<<>>, <<"--token", "t">>}

\* ConsoleUser { username, uid }, macos.rs:7-11
ConsoleUsers ==
    { [username |-> <<"a", "l">>, uid |-> 501],
      [username |-> <<"b", "o">>, uid |-> 502] }

\* Mutant: the walk starts at the root, the outermost bundle wins
extract_app_bundle_path_Outermost(executable) ==
    LET ks == {k \in 1..Len(executable) :
                  /\ IsSome(file_name(Ancestor(executable, k)))
                  /\ ends_with(Unwrap(file_name(Ancestor(executable, k))),
                               DotApp)}
    IN IF ks = {} THEN None
       ELSE Some(Ancestor(executable, CHOOSE k \in ks : \A j \in ks : k <= j))

\* extract_app_bundle_path, macos.rs:125-135: the first ancestor, nearest
\* first, whose file name ends with ".app"
extract_app_bundle_path(executable) ==
    LET ks == {k \in 1..Len(executable) :
                  /\ IsSome(file_name(Ancestor(executable, k)))
                  /\ ends_with(Unwrap(file_name(Ancestor(executable, k))),
                               DotApp)}
    IN IF ks = {} THEN None
       ELSE Some(Ancestor(executable, CHOOSE k \in ks : \A j \in ks : j <= k))

\* A command line: program, the user it runs as (a uid for launchctl
\* asuser, a name for sudo -u), the words before the target, the target,
\* and the words after it
Command(program, uid, username, verb, target, rest) ==
    [program |-> program, uid |-> uid, username |-> username,
     verb |-> verb, target |-> target, rest |-> rest]

\* launch_via_launchctl, macos.rs:83-119: the command it builds
LaunchctlCommand(executable, args, uid) ==
    LET app_path == extract_app_bundle_path(executable)
    IN IF IsSome(app_path)
       THEN Command("launchctl", Some(uid), None, <<"open", "-a">>,
                    Unwrap(app_path),
                    IF Len(args) # 0 THEN <<"--args">> \o args ELSE <<>>)
       ELSE Command("launchctl", Some(uid), None, <<>>, executable, args)

\* launch_via_sudo, macos.rs:144-152: the command it builds
SudoCommand(executable, args, username) ==
    Command("sudo", None, Some(username), <<>>, executable, args)

\* Result<Child>: the child of a spawned command, or the error
Child(program) == [ok |-> TRUE, child |-> program, step |-> "none"]
LErr(step) == [ok |-> FALSE, child |-> "none", step |-> step]

\* Mutant: the existence check is dropped
AfterExistsCheck_Ignore(exists) == "launchctl"

\* macos.rs:46-48
AfterExistsCheck(exists) == IF exists THEN "launchctl" ELSE "not_found"

\* Mutant: the error of launchctl is returned, sudo is never tried
AfterLaunchctl_NoFallback(ok) == "return"

\* macos.rs:50-55
AfterLaunchctl(ok) == IF ok THEN "return" ELSE "sudo"

\* launch_as_user, macos.rs:41-48
LaunchAsUser ==
    /\ lpc = "idle"
    /\ IF AfterExistsCheck(exe_exists) = "not_found"
       THEN /\ lpc' = "done"
            /\ lresult' = Some(LErr("not_found"))
       ELSE /\ lpc' = "launchctl"
            /\ UNCHANGED lresult
    /\ UNCHANGED <<NotLaunch, exe_exists, l_exe, l_args, l_user, spawns>>

\* launch_via_launchctl, macos.rs:78-123, and the match of lines 50-55
LaunchViaLaunchctl ==
    /\ lpc = "launchctl"
    /\ \E ok \in BOOLEAN :
          LET res == IF ok THEN Child("launchctl") ELSE LErr("launchctl")
          IN /\ spawns' = Append(spawns,
                    [cmd |-> LaunchctlCommand(l_exe, l_args, l_user.uid),
                     res |-> res])
             /\ IF AfterLaunchctl(ok) = "return"
                THEN /\ lpc' = "done"
                     /\ lresult' = Some(res)
                ELSE /\ lpc' = "sudo"
                     /\ UNCHANGED lresult
    /\ UNCHANGED <<NotLaunch, exe_exists, l_exe, l_args, l_user>>

\* launch_via_sudo, macos.rs:137-156, called at line 57
LaunchViaSudo ==
    /\ lpc = "sudo"
    /\ \E ok \in BOOLEAN :
          LET res == IF ok THEN Child("sudo") ELSE LErr("sudo")
          IN /\ spawns' = Append(spawns,
                    [cmd |-> SudoCommand(l_exe, l_args, l_user.username),
                     res |-> res])
             /\ lpc' = "done"
             /\ lresult' = Some(res)
    /\ UNCHANGED <<NotLaunch, exe_exists, l_exe, l_args, l_user>>

LInit ==
    /\ exe_exists \in BOOLEAN
    /\ l_exe \in ExePaths
    /\ l_args \in ArgLists
    /\ l_user \in ConsoleUsers
    /\ lpc = "idle"
    /\ spawns = <<>>
    /\ lresult = None

LIdle ==
    /\ exe_exists = FALSE
    /\ l_exe = <<>>
    /\ l_args = <<>>
    /\ l_user = [username |-> <<>>, uid |-> 0]
    /\ lpc = "done"
    /\ spawns = <<>>
    /\ lresult = None

(***************************************************************************)
(* Console user (platform/user_session/macos.rs) and Preference Channel    *)
(* (platform/preferences_writer.rs)                                        *)
(***************************************************************************)
Whitespace == {" ", "\t", "\n"}

RECURSIVE trim_start(_)
trim_start(s) ==
    IF s # <<>> /\ Head(s) \in Whitespace THEN trim_start(Tail(s)) ELSE s

RECURSIVE trim_end(_)
trim_end(s) ==
    IF s # <<>> /\ s[Len(s)] \in Whitespace
    THEN trim_end(SubSeq(s, 1, Len(s) - 1))
    ELSE s

\* str::trim
trim(s) == trim_end(trim_start(s))

Digits == <<"0", "1", "2", "3", "4", "5", "6", "7", "8", "9">>

IsDigit(c) == \E d \in 1..Len(Digits) : Digits[d] = c

DigitValue(c) == (CHOOSE d \in 1..Len(Digits) : Digits[d] = c) - 1

RECURSIVE StripZeros(_)
StripZeros(ds) ==
    IF ds # <<>> /\ Head(ds) = "0" THEN StripZeros(Tail(ds)) ELSE ds

\* u32::MAX, digit by digit
U32MaxDigits == <<"4", "2", "9", "4", "9", "6", "7", "2", "9", "5">>

\* The digit string ds, without leading zeros, is above u32::MAX
ExceedsU32(ds) ==
    \/ Len(ds) > Len(U32MaxDigits)
    \/ /\ Len(ds) = Len(U32MaxDigits)
       /\ \E k \in 1..Len(ds) :
            /\ \A j \in 1..(k - 1) : ds[j] = U32MaxDigits[j]
            /\ DigitValue(ds[k]) > DigitValue(U32MaxDigits[k])

RECURSIVE DecimalValue(_)
DecimalValue(ds) ==
    IF ds = <<>> THEN 0
    ELSE 10 * DecimalValue(SubSeq(ds, 1, Len(ds) - 1)) + DigitValue(ds[Len(ds)])

\* str::parse::<u32>: an optional "+", then one or more digits, and a value
\* of at most u32::MAX
parse_u32(s) ==
    LET ds == IF s # <<>> /\ Head(s) = "+" THEN Tail(s) ELSE s
    IN IF ds = <<>> \/ \E k \in 1..Len(ds) : ~IsDigit(ds[k]) THEN None
       ELSE IF ExceedsU32(StripZeros(ds)) THEN None
       ELSE Some(DecimalValue(StripZeros(ds)))

\* Command::output(): the spawn failed, or the process ran and wrote stdout
SpawnFailed == [spawned |-> FALSE, stdout |-> <<>>]
Ran(stdout) == [spawned |-> TRUE, stdout |-> stdout]

NameAl == <<"a", "l">>
NameBo == <<"b", "o">>
NameRoot == <<"r", "o", "o", "t">>

\* Answers of `stat -f %Su /dev/console`
StatAnswers ==
    { SpawnFailed,
      Ran(<<>>),
      Ran(<<"\n">>),
      Ran(NameRoot \o <<"\n">>),
      Ran(NameAl \o <<"\n">>),
      Ran(<<" ">> \o NameBo \o <<" ", "\n">>) }

\* Answers of `id -u <username>`
IdAnswers ==
    { SpawnFailed,
      Ran(<<>>),
      Ran(<<"x", "\n">>),
      Ran(<<"5", "0", "1", "\n">>),
      Ran(<<" ", "0", "7", "\n">>),
      Ran(<<"+", "9", "\n">>),
      Ran(<<"4", "2", "9", "4", "9", "6", "7", "2", "9", "6", "\n">>) }

\* Mutant: the superuser is accepted as the console user
ConsoleOwner_RootAllowed(output) ==
    IF ~output.spawned THEN None
    ELSE IF trim(output.stdout) = <<>> THEN None
    ELSE Some(trim(output.stdout))

\* get_console_user, macos.rs:15-25: the username, None where the function
\* returns None
ConsoleOwner(output) ==
    IF ~output.spawned THEN None
    ELSE IF trim(output.stdout) = <<>> \/ trim(output.stdout) = NameRoot
         THEN None
    ELSE Some(trim(output.stdout))

\* get_console_user, macos.rs:27-38
ConsoleUserOf(username, uid_output) ==
    IF ~uid_output.spawned THEN None
    ELSE IF ~IsSome(parse_u32(trim(uid_output.stdout))) THEN None
    ELSE Some([username |-> username,
               uid |-> Unwrap(parse_u32(trim(uid_output.stdout)))])

PrefKeys == {"k1", "k2"}
PrefValues == {"v1", "v2"}
Unset == "unset"
PrefPairs == PrefKeys \X PrefValues
PrefLists == SeqsUpTo(PrefPairs, MaxPrefs)
BundleId == "com.openframe.chat"
StoreUsers == {NameAl, NameBo}

POk == [ok |-> TRUE, step |-> "none", key |-> "none"]
PErr(step, key) == [ok |-> FALSE, step |-> step, key |-> key]

\* A subprocess run: the program, the user it names, the key and value it
\* writes, and what came of it
Run(program, user, key, value, answer) ==
    [program |-> program, user |-> user, key |-> key, value |-> value,
     answer |-> answer]

\* get_console_user returned user: to its caller for the operation
\* get_console_user, to line 14 of preferences_writer.rs for write
ReturnUser(user) ==
    /\ p_user' = user
    /\ IF p_op = "get_console_user"
       THEN ppc' = "done" /\ UNCHANGED presult
       ELSE IF IsSome(user)
            THEN ppc' = "check_empty" /\ UNCHANGED presult
            ELSE ppc' = "done" /\ presult' = Some(PErr("no_console_user", "none"))

\* Mutant: the owner an earlier call found is used again
QueryConsole_Cached(now, before) ==
    IF before # <<>> THEN before[1].console ELSE now

\* macos.rs:15-18: stat is run by every call and answers with the owner the
\* console has now; nothing an earlier call found is kept
QueryConsole(now, before) == now

\* get_console_user, macos.rs:15-25
StatConsole ==
    /\ ppc = "start"
    /\ platform = "macos"
    /\ LET output == QueryConsole(console, earlier)
       IN /\ plog' = Append(plog, Run("stat", None, "none", "none", output))
          /\ IF IsSome(ConsoleOwner(output))
             THEN /\ p_name' = ConsoleOwner(output)
                  /\ ppc' = "id"
                  /\ UNCHANGED <<p_user, presult>>
             ELSE /\ ReturnUser(None)
                  /\ UNCHANGED p_name
    /\ UNCHANGED <<NotPrefs, earlier, console, store, store0, p_op, p_prefs,
                   p_i>>

\* get_console_user, macos.rs:27-38
IdUser ==
    /\ ppc = "id"
    /\ \E uid_output \in IdAnswers :
          /\ plog' = Append(plog, Run("id", p_name, "none", "none", uid_output))
          /\ ReturnUser(ConsoleUserOf(Unwrap(p_name), uid_output))
    /\ UNCHANGED <<NotPrefs, earlier, console, store, store0, p_op, p_prefs,
                   p_name, p_i>>

\* write, preferences_writer.rs:15-19
CheckEmpty ==
    /\ ppc = "check_empty"
    /\ IF Len(p_prefs) = 0
       THEN ppc' = "done" /\ presult' = Some(POk) /\ UNCHANGED p_i
       ELSE ppc' = "loop" /\ p_i' = 1 /\ UNCHANGED presult
    /\ UNCHANGED <<NotPrefs, earlier, console, store, store0, p_op, p_prefs,
                   p_name, p_user, plog>>

\* Mutant: a failed write is passed over, the loop goes on
AfterWrite_Continue(outcome) == "next"

\* preferences_writer.rs:25-29: `?` on the spawn, bail on a nonzero exit
AfterWrite(outcome) ==
    CASE outcome = "ok" -> "next"
      [] outcome = "spawn" -> "fail_spawn"
      [] OTHER -> "fail_exit"

\* Mutant: the loop steps over every other pair
NextPair_Skip(i) == i + 2

\* preferences_writer.rs:21: the for loop
NextPair(i) == i + 1

\* write, preferences_writer.rs:21-32: one turn of the loop.  A write that
\* exits 0 has set the key in the store of the user; a write that was not
\* spawned or exits nonzero has not.
WritePref ==
    /\ ppc = "loop"
    /\ LET key == p_prefs[p_i][1]
           value == p_prefs[p_i][2]
           username == Unwrap(p_user).username
       IN \E outcome \in {"ok", "spawn", "nonzero"} :
            /\ plog' = Append(plog,
                   Run("sudo", Some(username), key, value, outcome))
            /\ store' = IF outcome = "ok" /\ username \in StoreUsers
                        THEN [store EXCEPT ![username][key] = value]
                        ELSE store
            /\ CASE AfterWrite(outcome) = "fail_spawn" ->
                      /\ ppc' = "done"
                      /\ presult' = Some(PErr("write_spawn", key))
                      /\ UNCHANGED p_i
                 [] AfterWrite(outcome) = "fail_exit" ->
                      /\ ppc' = "done"
                      /\ presult' = Some(PErr("write_exit", key))
                      /\ UNCHANGED p_i
                 [] OTHER ->
                      IF NextPair(p_i) > Len(p_prefs)
                      THEN /\ ppc' = "done"
                           /\ presult' = Some(POk)
                           /\ UNCHANGED p_i
                      ELSE /\ p_i' = NextPair(p_i)
                           /\ UNCHANGED <<ppc, presult>>
    /\ UNCHANGED <<NotPrefs, earlier, console, store0, p_op, p_prefs, p_name,
                   p_user>>

\* write on a platform other than macOS, preferences_writer.rs:35-41
WriteNoop ==
    /\ ppc = "start"
    /\ platform # "macos"
    /\ p_op = "write"
    /\ ppc' = "done"
    /\ presult' = Some(POk)
    /\ UNCHANGED <<NotPrefs, earlier, console, store, store0, p_op, p_prefs,
                   p_name, p_user, p_i, plog>>

PInit ==
    /\ console \in StatAnswers
    /\ \E s \in [PrefKeys -> {Unset, "v1"}] : store = [u \in StoreUsers |-> s]
    /\ store0 = store
    /\ p_op \in {"get_console_user", "write"}
    /\ p_op = "get_console_user" => platform = "macos"
    /\ p_prefs \in (IF p_op = "write" THEN PrefLists ELSE {<<>>})
    /\ ppc = "start"
    /\ p_name = None
    /\ p_user = None
    /\ p_i = 0
    /\ plog = <<>>
    /\ earlier = <<>>
    /\ presult = None

\* The arguments of the calls of a session of two calls
SessionPrefLists == {<<>>, <<<<"k1", "v1">>>>}

\* The call has returned and the next call of get_console_user or write
\* starts: its locals are new (macos.rs:13-39, preferences_writer.rs:14-15)
NextCall ==
    /\ ppc = "done"
    /\ earlier = <<>>
    /\ earlier' = Append(earlier, [console |-> console, user |-> p_user])
    /\ \E op \in {"get_console_user", "write"} :
          /\ p_op' = op
          /\ p_prefs' \in (IF op = "write" THEN SessionPrefLists ELSE {<<>>})
    /\ ppc' = "start"
    /\ p_name' = None
    /\ p_user' = None
    /\ p_i' = 0
    /\ plog' = <<>>
    /\ presult' = None
    /\ store0' = store
    /\ UNCHANGED <<NotPrefs, console, store>>

\* Logout, login or fast user switching between the two calls: the console
\* has another owner
ConsoleChanges ==
    /\ ppc = "start"
    /\ earlier # <<>>
    /\ console = earlier[1].console
    /\ console' \in StatAnswers \ {console}
    /\ UNCHANGED <<NotPrefs, earlier, store, store0, p_op, p_prefs, ppc, p_name,
                   p_user, p_i, plog, presult>>

PIdle ==
    /\ console = SpawnFailed
    /\ store = [u \in StoreUsers |-> [k \in PrefKeys |-> Unset]]
    /\ store0 = store
    /\ p_op = "write"
    /\ p_prefs = <<>>
    /\ ppc = "done"
    /\ p_name = None
    /\ p_user = None
    /\ p_i = 0
    /\ plog = <<>>
    /\ earlier = <<>>
    /\ presult = None

(***************************************************************************)
(* args_to_pairs (platform/preferences_writer.rs)                          *)
(***************************************************************************)
DashDash == <<"-", "-">>

\* str::starts_with
starts_with(s, prefix) ==
    /\ Len(s) >= Len(prefix)
    /\ SubSeq(s, 1, Len(prefix)) = prefix

\* str::strip_prefix
strip_prefix(s, prefix) ==
    IF starts_with(s, prefix)
    THEN Some(SubSeq(s, Len(prefix) + 1, Len(s)))
    ELSE None

\* slice::get: the element at index i counted from 0
get(args, i) == IF i < Len(args) THEN Some(args[i + 1]) ELSE None

\* Mutant: the element after a flag is its value whatever it starts with
NextValue_NoFilter(args, i) == get(args, i + 1)

\* preferences_writer.rs:51: args.get(i + 1).filter(|v| !v.starts_with("--"))
NextValue(args, i) ==
    IF IsSome(get(args, i + 1)) /\ ~starts_with(Unwrap(get(args, i + 1)), DashDash)
    THEN get(args, i + 1)
    ELSE None

ArgTokens ==
    { <<"-", "-", "a">>, <<"-", "-", "b">>, DashDash, <<"-", "x">>, <<"v">> }

ArgVectors == SeqsUpTo(ArgTokens, MaxArgs)

\* args_to_pairs, preferences_writer.rs:49-64: one turn of the while loop
ScanArg ==
    /\ apc = "loop"
    /\ a_i < Len(a_args)
    /\ LET key == strip_prefix(a_args[a_i + 1], DashDash)
           value == NextValue(a_args, a_i)
       IN IF IsSome(key)
          THEN IF IsSome(value)
               THEN /\ a_result' = Append(a_result,
                                          <<Unwrap(key), Unwrap(value)>>)
                    /\ a_i' = a_i + 2
               ELSE /\ a_result' = Append(a_result, <<Unwrap(key), <<"1">>>>)
                    /\ a_i' = a_i + 1
          ELSE /\ a_i' = a_i + 1
               /\ UNCHANGED a_result
    /\ UNCHANGED <<NotArgs, a_args, apc>>

\* args_to_pairs, preferences_writer.rs:49 and 66: the loop ends, result is
\* returned
ReturnPairs ==
    /\ apc = "loop"
    /\ ~(a_i < Len(a_args))
    /\ apc' = "done"
    /\ UNCHANGED <<NotArgs, a_args, a_i, a_result>>

AInit ==
    /\ a_args \in ArgVectors
    /\ a_i = 0
    /\ a_result = <<>>
    /\ apc = "loop"

AIdle ==
    /\ a_args = <<>>
    /\ a_i = 0
    /\ a_result = <<>>
    /\ apc = "done"

(***************************************************************************)
(* DownloadConfiguration::is_folder_extraction                             *)
(* (models/download_configuration.rs)                                      *)
(***************************************************************************)
Slash == "/"

\* The characters of target_file_name: a letter, the separator, the dot
NameChars == {"a", Slash, "."}

TargetFileNames == SeqsUpTo(NameChars, MaxNameLen)

\* The text of s up to its first separator
RECURSIVE FirstSegment(_)
FirstSegment(s) ==
    IF s = <<>> \/ Head(s) = Slash THEN <<>>
    ELSE <<Head(s)>> \o FirstSegment(Tail(s))

\* Path::components after the root: separators and "." are passed over,
\* ".." and every other name are components
RECURSIVE ComponentsAfter(_)
ComponentsAfter(s) ==
    IF s = <<>> THEN <<>>
    ELSE IF Head(s) = Slash THEN ComponentsAfter(Tail(s))
    ELSE LET seg == FirstSegment(s)
             rest == SubSeq(s, Len(seg) + 1, Len(s))
         IN IF seg = <<".">> THEN ComponentsAfter(rest)
            ELSE <<seg>> \o ComponentsAfter(rest)

\* Path::components: RootDir for a leading separator; CurDir for a leading
\* "." of a path without root; then the names
components(s) ==
    IF s # <<>> /\ Head(s) = Slash
    THEN <<<<Slash>>>> \o ComponentsAfter(s)
    ELSE IF FirstSegment(s) = <<".">>
         THEN <<<<".">>>> \o ComponentsAfter(Tail(s))
    ELSE ComponentsAfter(s)

\* Mutant: the name is searched for a separator
is_folder_extraction_AnySlash(target_file_name) ==
    \E k \in 1..Len(target_file_name) : target_file_name[k] = Slash

\* download_configuration.rs:28-30
is_folder_extraction(target_file_name) ==
    Len(components(target_file_name)) > 1

IsFolderExtraction ==
    /\ fpc = "call"
    /\ f_result' = Some(is_folder_extraction(f_name))
    /\ fpc' = "done"
    /\ UNCHANGED <<NotFolder, f_name>>

FInit ==
    /\ f_name \in TargetFileNames
    /\ fpc = "call"
    /\ f_result = None

FIdle ==
    /\ f_name = <<>>
    /\ fpc = "done"
    /\ f_result = None

(***************************************************************************)
(* The bundle resolvers of uninstall (remove_macos_app_bundle) and of      *)
(* launch (extract_app_bundle_path), applied to the same executable path   *)
(***************************************************************************)
\* Names of path components: a directory, two bundles, a name that is only
\* the suffix, an executable, and ".."
ComponentNames == {DirA, AppM, AppH, DotApp, ExeM, DotDot}

ExecutablePaths == SeqsUpTo(ComponentNames, MaxDepth)

\* remove_macos_app_bundle, tool_uninstall_service.rs:176-183
ResolveForDelete ==
    /\ r_delete = None
    /\ r_delete' = Some(FindAppBundle(r_path))
    /\ UNCHANGED <<NotResolvers, r_path, r_open>>

\* launch_via_launchctl, macos.rs:83, calling extract_app_bundle_path
ResolveForLaunch ==
    /\ r_open = None
    /\ r_open' = Some(extract_app_bundle_path(r_path))
    /\ UNCHANGED <<NotResolvers, r_path, r_delete>>

RInit ==
    /\ r_path \in ExecutablePaths
    /\ r_delete = None
    /\ r_open = None

RIdle ==
    /\ r_path = <<>>
    /\ r_delete = Some(None)
    /\ r_open = Some(None)

(***************************************************************************)
(* One caller of uninstall_all                                             *)
(***************************************************************************)
UInit(callers) ==
    /\ registry \in Registries
    /\ fs \in SUBSET {BundleM}
    /\ ulog = <<>>
    /\ upc = [c \in callers |-> "idle"]
    /\ installed_tools = [c \in callers |-> <<>>]
    /\ idx = [c \in callers |-> 0]
    /\ uresult = [c \in callers |-> None]

Init ==
    /\ platform \in Platforms
    /\ UInit({1})
    /\ DInit({})
    /\ LIdle
    /\ PIdle
    /\ AIdle
    /\ FIdle
    /\ RIdle

Next ==
    \/ GetAll
    \/ StopToolProcess
    \/ StopAsset
    \/ CheckUninstallArgs
    \/ ProcessParams
    \/ CheckAgentPath
    \/ ExecuteCommand
    \/ CleanupGuiAppBundle

Spec == Init /\ [][Next]_vars

(***************************************************************************)
(* Two callers of uninstall_all on one service (it is Clone and holds no   *)
(* lock), interleaved step by step                                         *)
(***************************************************************************)
ToolNamed(id) == CHOOSE t \in ToolPool : t.tool_agent_id = id

\* Two tools without uninstall command: a GuiApp without executable path
\* and a GuiApp in a bundle
SharedRegistry == <<ToolNamed(<<"n">>), ToolNamed(<<"x", "F", "L", "e", "E", "T">>)>>

InitConcurrent ==
    /\ platform = "macos"
    /\ UInit({1, 2})
    /\ registry = SharedRegistry
    /\ fs = {BundleM}
    /\ DInit({})
    /\ LIdle
    /\ PIdle
    /\ AIdle
    /\ FIdle
    /\ RIdle

NextConcurrent ==
    \/ GetAll
    \/ StopToolProcess
    \/ StopAsset
    \/ CheckUninstallArgs
    \/ CleanupGuiAppBundle

SpecConcurrent == InitConcurrent /\ [][NextConcurrent]_vars

(***************************************************************************)
(* One call of extract_all                                                 *)
(***************************************************************************)
UIdle ==
    /\ registry = <<>>
    /\ fs = {}
    /\ ulog = <<>>
    /\ upc = <<>>
    /\ installed_tools = <<>>
    /\ idx = <<>>
    /\ uresult = <<>>

InitDmg ==
    /\ platform \in Platforms
    /\ UIdle
    /\ DInit({1})
    /\ LIdle
    /\ PIdle
    /\ AIdle
    /\ FIdle
    /\ RIdle

NextDmg ==
    \/ ExtractAllUnsupported
    \/ WriteTempFile
    \/ Mount
    \/ RemoveExisting
    \/ CopyRecursive
    \/ Unmount
    \/ RemoveTempFile

SpecDmg == InitDmg /\ [][NextDmg]_vars

(***************************************************************************)
(* Two calls of extract_all on macOS, interleaved step by step, each with  *)
(* its own entry of a target directory                                     *)
(***************************************************************************)
InitDmgConcurrent ==
    /\ platform = "macos"
    /\ UIdle
    /\ DInit({1, 2})
    /\ \A c \in Calls : source_path[c] \in {None, Some(<<AppM>>)}
    /\ LIdle
    /\ PIdle
    /\ AIdle
    /\ FIdle
    /\ RIdle

NextDmgConcurrent ==
    \/ WriteTempFile
    \/ Mount
    \/ RemoveExisting
    \/ CopyRecursive
    \/ Unmount
    \/ RemoveTempFile

SpecDmgConcurrent == InitDmgConcurrent /\ [][NextDmgConcurrent]_vars

(***************************************************************************)
(* One call of launch_as_user                                              *)
(***************************************************************************)
InitLaunch ==
    /\ platform = "macos"
    /\ UIdle
    /\ DInit({})
    /\ LInit
    /\ PIdle
    /\ AIdle
    /\ FIdle
    /\ RIdle

NextLaunch ==
    \/ LaunchAsUser
    \/ LaunchViaLaunchctl
    \/ LaunchViaSudo

SpecLaunch == InitLaunch /\ [][NextLaunch]_vars

(***************************************************************************)
(* One call of get_console_user or of write                                *)
(***************************************************************************)
InitPrefs ==
    /\ platform \in Platforms
    /\ UIdle
    /\ DInit({})
    /\ LIdle
    /\ PInit
    /\ AIdle
    /\ FIdle
    /\ RIdle

NextPrefs ==
    \/ StatConsole
    \/ IdUser
    \/ CheckEmpty
    \/ WritePref
    \/ WriteNoop

SpecPrefs == InitPrefs /\ [][NextPrefs]_vars

(***************************************************************************)
(* Two calls of get_console_user or write, one after the other, with a     *)
(* change of the console owner between them                                *)
(***************************************************************************)
InitSession ==
    /\ platform = "macos"
    /\ UIdle
    /\ DInit({})
    /\ LIdle
    /\ PInit
    /\ store = [u \in StoreUsers |-> [k \in PrefKeys |-> Unset]]
    /\ p_prefs \in SessionPrefLists
    /\ AIdle
    /\ FIdle
    /\ RIdle

NextSession ==
    \/ StatConsole
    \/ IdUser
    \/ CheckEmpty
    \/ WritePref
    \/ NextCall
    \/ ConsoleChanges

SpecSession == InitSession /\ [][NextSession]_vars

(***************************************************************************)
(* One call of args_to_pairs                                               *)
(***************************************************************************)
InitArgs ==
    /\ platform \in Platforms
    /\ UIdle
    /\ DInit({})
    /\ LIdle
    /\ PIdle
    /\ AInit
    /\ FIdle
    /\ RIdle

NextArgs ==
    \/ ScanArg
    \/ ReturnPairs

SpecArgs == InitArgs /\ [][NextArgs]_vars

(***************************************************************************)
(* One call of is_folder_extraction                                        *)
(***************************************************************************)
InitFolder ==
    /\ platform \in Platforms
    /\ UIdle
    /\ DInit({})
    /\ LIdle
    /\ PIdle
    /\ AIdle
    /\ FInit
    /\ RIdle

NextFolder == IsFolderExtraction

SpecFolder == InitFolder /\ [][NextFolder]_vars

(***************************************************************************)
(* Both resolvers applied to one executable path                           *)
(***************************************************************************)
InitResolvers ==
    /\ platform = "macos"
    /\ UIdle
    /\ DInit({})
    /\ LIdle
    /\ PIdle
    /\ AIdle
    /\ FIdle
    /\ RInit

NextResolvers ==
    \/ ResolveForDelete
    \/ ResolveForLaunch

SpecResolvers == InitResolvers /\ [][NextResolvers]_vars

(***************************************************************************)
(* Reading the history                                                     *)
(***************************************************************************)
Positions == 1..Len(ulog)

Is(k, c, i, step) ==
    ulog[k].caller = c /\ ulog[k].tool = i /\ ulog[k].step = step

Did(c, i, step) == \E k \in Positions : Is(k, c, i, step)

DidOk(c, i, step) == \E k \in Positions : Is(k, c, i, step) /\ ulog[k].ok

DidFail(c, i, step) == \E k \in Positions : Is(k, c, i, step) /\ ~ulog[k].ok

\* The steps of the per-tool procedure
ToolSteps ==
    {"stop", "aux_stop", "resolve", "path_check", "spawn", "exec",
     "cleanup", "remove_dir_all"}

ToolOf(c, i) == installed_tools[c][i]

NoArgs(tool) ==
    \/ tool.uninstallation_command_args = None
    \/ tool.uninstallation_command_args = Some(<<>>)

Returned(c) == upc[c] = "done" /\ IsSome(uresult[c])

(***************************************************************************)
(* C1: uninstall_all is fail-fast.  When the procedure of tool k is the    *)
(* first to fail, uninstall_all has returned an error naming the           *)
(* tool_agent_id of tool k, every earlier tool returned success, and no    *)
(* step was performed for any tool after k.                                *)
(***************************************************************************)
C1_FailFast ==
    \A c \in Callers : \A k \in Positions :
        (ulog[k].caller = c /\ ulog[k].step = "return" /\ ~ulog[k].ok) =>
            LET i == ulog[k].tool
            IN /\ Returned(c)
               /\ ~Unwrap(uresult[c]).ok
               /\ Unwrap(uresult[c]).tool = Some(ToolOf(c, i).tool_agent_id)
               /\ \A j \in 1..(i - 1) : DidOk(c, j, "return")
               /\ \A m \in Positions : ulog[m].caller = c => ulog[m].tool <= i
               /\ \A m \in Positions : ulog[m].caller = c => m <= k

\* Tool #2 of three failed, tool #1 had been uninstalled
C1_Witness ==
    \E c \in Callers :
        /\ Len(installed_tools[c]) = 3
        /\ DidOk(c, 1, "return")
        /\ DidFail(c, 2, "return")
        /\ Returned(c)

(***************************************************************************)
(* C2: ordering invariant of the per-tool procedure.  A command is         *)
(* executed (or its spawn attempted) and the bundle cleanup started only   *)
(* after the stop of that tool's process has succeeded.                    *)
(***************************************************************************)
C2_StopFirst ==
    \A k \in Positions :
        ulog[k].step \in {"spawn", "exec", "cleanup", "remove_dir_all"} =>
            /\ \E m \in 1..(k - 1) :
                  /\ Is(m, ulog[k].caller, ulog[k].tool, "stop")
                  /\ ulog[m].ok
            /\ ~DidFail(ulog[k].caller, ulog[k].tool, "stop")

C2_Witness ==
    \E c \in Callers : \E i \in 1..Len(installed_tools[c]) :
        /\ DidOk(c, i, "exec")
        /\ DidOk(c, i, "remove_dir_all")

(***************************************************************************)
(* C3: when the registry returns an empty list, uninstall_all returns      *)
(* success; no kill-service call, no resolver call, no command and no      *)
(* deletion is made by that call.                                          *)
(***************************************************************************)
C3_EmptyRegistry ==
    \A c \in Callers :
        (DidOk(c, 0, "get_all") /\ installed_tools[c] = <<>>) =>
            /\ uresult[c] = Some(OkResult)
            /\ upc[c] = "done"
            /\ \A k \in Positions :
                  ulog[k].caller = c => ulog[k].step = "get_all"

C3_Witness ==
    \E c \in Callers :
        /\ DidOk(c, 0, "get_all")
        /\ registry = <<>>
        /\ Returned(c)

(***************************************************************************)
(* C4: a tool whose uninstallation_command_args is absent or empty never   *)
(* reaches the command resolver, the executable check or a command; its    *)
(* procedure fails only when one of the two stops failed; and when it is a *)
(* GuiApp and returned success the bundle cleanup ran before the return.   *)
(***************************************************************************)
C4_NoArgs ==
    \A c \in Callers : \A i \in 1..Len(installed_tools[c]) :
        NoArgs(ToolOf(c, i)) =>
            /\ \A st \in {"resolve", "path_check", "spawn", "exec"} :
                  ~Did(c, i, st)
            /\ DidFail(c, i, "return") =>
                  DidFail(c, i, "stop") \/ DidFail(c, i, "aux_stop")
            /\ (DidOk(c, i, "return")
                    /\ ToolOf(c, i).installation_type = "GuiApp") =>
                  \E k \in Positions : \E m \in Positions :
                      /\ k < m
                      /\ Is(k, c, i, "cleanup")
                      /\ Is(m, c, i, "return")

\* An empty argument list on a GuiApp tool, and an absent one whose bundle
\* was deleted
C4_Witness ==
    \E c \in Callers : \E i, j \in 1..Len(installed_tools[c]) :
        /\ ToolOf(c, i).uninstallation_command_args = Some(<<>>)
        /\ DidOk(c, i, "return")
        /\ ToolOf(c, j).uninstallation_command_args = None
        /\ DidOk(c, j, "remove_dir_all")
        /\ DidOk(c, j, "return")

(***************************************************************************)
(* C5: (as claimed) when the resolved executable does not exist, a GuiApp  *)
(* tool still has its bundle cleanup performed before uninstall_tool       *)
(* returns.                                                                *)
(***************************************************************************)
C5_MissingExeStillCleans ==
    \A c \in Callers : \A i \in 1..Len(installed_tools[c]) :
        (/\ DidFail(c, i, "path_check")
         /\ Did(c, i, "return")
         /\ ToolOf(c, i).installation_type = "GuiApp") =>
            Did(c, i, "cleanup")

(***************************************************************************)
(* C6: a missing executable is not an error.  After an executable check    *)
(* that found nothing, no command is spawned for the tool, uninstall_tool  *)
(* returns success at once and the batch goes on (next tool, or overall    *)
(* success after the last).  A bundle cleanup never makes the tool fail.   *)
(***************************************************************************)
C6_MissingIsSuccess ==
    \A c \in Callers : \A k \in Positions :
        LET i == ulog[k].tool
        IN /\ (ulog[k].caller = c /\ ulog[k].step = "path_check"
                    /\ ~ulog[k].ok) =>
                /\ ~Did(c, i, "spawn") /\ ~Did(c, i, "exec")
                /\ DidOk(c, i, "return")
                /\ ~DidFail(c, i, "return")
                /\ IF i < Len(installed_tools[c])
                   THEN idx[c] > i
                   ELSE uresult[c] = Some(OkResult)
           /\ (ulog[k].caller = c /\ ulog[k].step = "cleanup") =>
                /\ DidOk(c, i, "return")
                /\ ~DidFail(c, i, "return")

\* The executable of tool #1 was missing and tool #2 was started; a bundle
\* that is absent from disk was cleaned up without failure
C6_Witness ==
    \E c \in Callers :
        /\ DidFail(c, 1, "path_check")
        /\ Did(c, 2, "stop")
        /\ \E i \in 1..Len(installed_tools[c]) :
              /\ Did(c, i, "cleanup")
              /\ ToolOf(c, i).installation_type = "GuiApp"
              /\ ToolOf(c, i).executable_path = Some(PathInBundle)
              /\ ~Did(c, i, "remove_dir_all")
              /\ platform = "macos"

(***************************************************************************)
(* C7: a command that exits nonzero makes uninstall_tool fail with an      *)
(* error carrying the exit status, the captured stdout and the captured    *)
(* stderr; the bundle cleanup is not run for that tool and the batch is    *)
(* aborted: nothing follows but the failed return.                         *)
(***************************************************************************)
C7_NonzeroExit ==
    \A c \in Callers : \A k \in Positions :
        (ulog[k].caller = c /\ ulog[k].step = "exec" /\ ~ulog[k].ok) =>
            LET i == ulog[k].tool
                r == Unwrap(uresult[c])
            IN /\ Returned(c)
               /\ ~r.ok
               /\ r.status # 0
               /\ <<r.status, r.stdout, r.stderr>> = ulog[k].data
               /\ ~Did(c, i, "cleanup")
               /\ ~Did(c, i, "remove_dir_all")
               /\ DidFail(c, i, "return")
               /\ \A m \in Positions :
                     (ulog[m].caller = c /\ m > k) =>
                        (m = k + 1 /\ Is(m, c, i, "return") /\ ~ulog[m].ok)

C7_Witness ==
    \E c \in Callers : \E k \in Positions :
        /\ ulog[k].caller = c
        /\ ulog[k].step = "exec"
        /\ ~ulog[k].ok
        /\ ulog[k].data = <<1, "", "text">>
        /\ ToolOf(c, ulog[k].tool).installation_type = "GuiApp"
        /\ ulog[k].tool < Len(installed_tools[c])

(***************************************************************************)
(* C8: tools are processed in registry order, one at a time.  The steps    *)
(* of one caller never go back to an earlier tool; the procedure of a tool *)
(* begins with its stop, directly after the successful return of the tool  *)
(* before it; every tool before the current one has returned success; and  *)
(* nothing is undone: a bundle that was deleted stays deleted.             *)
(***************************************************************************)
C8_InOrder ==
    \A c \in Callers :
        LET IsMine(e) == e.caller = c /\ e.tool > 0
            mine == SelectSeq(ulog, IsMine)
        IN /\ \A k \in 1..Len(mine) :
                 /\ mine[k].step \in ToolSteps \cup {"return"}
                 /\ ToolOf(c, mine[k].tool) = registry[mine[k].tool]
                 /\ IF k = 1
                    THEN mine[k].tool = 1 /\ mine[k].step = "stop"
                    ELSE \/ /\ mine[k].tool = mine[k - 1].tool
                            /\ mine[k - 1].step # "return"
                         \/ /\ mine[k].tool = mine[k - 1].tool + 1
                            /\ mine[k].step = "stop"
                            /\ mine[k - 1].step = "return"
                            /\ mine[k - 1].ok
                 /\ (mine[k].step = "remove_dir_all" /\ mine[k].ok) =>
                       Unwrap(FindAppBundle(Unwrap(
                           ToolOf(c, mine[k].tool).executable_path))) \notin fs
           /\ Len(mine) > 0 =>
                 \A j \in 1..(mine[Len(mine)].tool - 1) : DidOk(c, j, "return")

\* The batch aborted at tool #3 after a bundle had been deleted for tool #1
C8_Witness ==
    \E c \in Callers :
        /\ DidOk(c, 1, "remove_dir_all")
        /\ DidOk(c, 2, "return")
        /\ DidFail(c, 3, "return")

(***************************************************************************)
(* C9: (as claimed) after extract_all has returned, with success or with   *)
(* any error, the temp image file and the mount point directory that the   *)
(* call created no longer exist.                                           *)
(***************************************************************************)
C9_TempRemoved ==
    \A c \in Calls :
        (dpc[c] = "done" /\ IsSome(dmg_id[c])) =>
            /\ Unwrap(dmg_id[c]) \notin tmp_files
            /\ Unwrap(dmg_id[c]) \notin mount_dirs

(***************************************************************************)
(* C10: once the copy has been attempted, the unmount and the removal of   *)
(* the temp image file are each attempted exactly once before extract_all  *)
(* returns, whatever the copy and the other cleanup step did, and the      *)
(* value returned is the copy result.                                      *)
(***************************************************************************)
C10_CleanupKeepsCopyResult ==
    \A c \in Calls :
        /\ cleanup_calls[c].copy <= 1
        /\ cleanup_calls[c].unmount <= cleanup_calls[c].copy
        /\ cleanup_calls[c].remove <= cleanup_calls[c].unmount
        /\ (dpc[c] = "done" /\ cleanup_calls[c].copy = 1) =>
              /\ cleanup_calls[c].unmount = 1
              /\ cleanup_calls[c].remove = 1
              /\ dresult[c] = copy_result[c]
              /\ IsSome(copy_result[c])

\* A successful copy followed by a failed unmount and a failed removal
C10_Witness ==
    \E c \in Calls :
        /\ dpc[c] = "done"
        /\ copy_result[c] = Some(DOk)
        /\ cleanup_calls[c].unmount = 1
        /\ ~cleanup_calls[c].unmount_ok
        /\ cleanup_calls[c].remove = 1
        /\ ~cleanup_calls[c].remove_ok

(***************************************************************************)
(* C11: a failed mount makes extract_all return the mount error with no    *)
(* copy attempted and the target entry exactly as it was before the call;  *)
(* a failed copy is the error extract_all returns, after the unmount and   *)
(* the temp file removal were attempted.                                   *)
(***************************************************************************)
C11_MountAndCopyErrors ==
    \A c \in Calls :
        /\ (cleanup_calls[c].mount = 1 /\ ~cleanup_calls[c].mount_ok) =>
              /\ dpc[c] = "done"
              /\ IsSome(dresult[c])
              /\ Unwrap(dresult[c]).step \in {"create_dir_all", "attach"}
              /\ cleanup_calls[c].copy = 0
              /\ dest[c] = dest0[c]
        /\ (dpc[c] = "done" /\ copy_result[c] = Some(DErr("copy"))) =>
              /\ dresult[c] = Some(DErr("copy"))
              /\ cleanup_calls[c].unmount = 1
              /\ cleanup_calls[c].remove = 1

\* The attach failed while the target held a directory named like the source
C11_Witness ==
    \E c \in Calls :
        /\ dpc[c] = "done"
        /\ dresult[c] = Some(DErr("attach"))
        /\ dest0[c].kind = "dir"
        /\ source_path[c] = Some(<<AppM>>)

(***************************************************************************)
(* C12: (as claimed) idempotent overwrite.  When the target directory held *)
(* an entry named like the copy source and extract_all returned success,   *)
(* the entry of that name holds the newly copied content and nothing of    *)
(* the old entry, also when removing the old entry failed.                 *)
(***************************************************************************)
C12_IdempotentOverwrite ==
    \A c \in Calls :
        (/\ dpc[c] = "done"
         /\ dresult[c] = Some(DOk)
         /\ dest0[c].kind # "none"
         /\ IsSome(file_name(Source(c)))) =>
            dest[c].content = "new"

(***************************************************************************)
(* C13: launch_as_user on an executable that does not exist returns a      *)
(* not-found error and spawns nothing: neither launchctl nor sudo.         *)
(***************************************************************************)
C13_NotFoundBeforeLaunch ==
    (lpc # "idle" /\ ~exe_exists) =>
        /\ lpc = "done"
        /\ lresult = Some(LErr("not_found"))
        /\ spawns = <<>>

C13_Witness ==
    /\ lpc = "done"
    /\ ~exe_exists
    /\ l_exe = PathInBundle
    /\ lresult = Some(LErr("not_found"))

(***************************************************************************)
(* C14: ranked launch fallback.  The first command spawned is launchctl    *)
(* asuser <uid>; sudo -u <username> is spawned if and only if launchctl    *)
(* failed; a successful launchctl child is what is returned, and after a   *)
(* failed launchctl the result is exactly that of sudo.                    *)
(***************************************************************************)
C14_RankedFallback ==
    /\ Len(spawns) <= 2
    /\ Len(spawns) >= 1 =>
          /\ exe_exists
          /\ spawns[1].cmd.program = "launchctl"
          /\ spawns[1].cmd.uid = Some(l_user.uid)
    /\ Len(spawns) = 2 =>
          /\ ~spawns[1].res.ok
          /\ spawns[2].cmd.program = "sudo"
          /\ spawns[2].cmd.username = Some(l_user.username)
    /\ (lpc = "done" /\ exe_exists) =>
          /\ Len(spawns) >= 1
          /\ IF spawns[1].res.ok
             THEN Len(spawns) = 1 /\ lresult = Some(spawns[1].res)
             ELSE Len(spawns) = 2 /\ lresult = Some(spawns[2].res)

\* launchctl failed and the child of sudo was returned
C14_Witness ==
    /\ lpc = "done"
    /\ Len(spawns) = 2
    /\ ~spawns[1].res.ok
    /\ lresult = Some(Child("sudo"))

(***************************************************************************)
(* C15: bundle special case of the launchctl strategy.  When a component   *)
(* of the executable path has a name ending in ".app", the target is the   *)
(* path up to the deepest such component, the command is                   *)
(* launchctl asuser <uid> open -a <bundle>, followed by --args and the     *)
(* args exactly when args is not empty; otherwise the command is           *)
(* launchctl asuser <uid> <executable> <args>.                             *)
(***************************************************************************)
C15_BundleLaunch ==
    \A n \in 1..Len(spawns) :
        spawns[n].cmd.program = "launchctl" =>
            LET cmd == spawns[n].cmd
                apps == {k \in 1..Len(l_exe) :
                            /\ Len(l_exe[k]) >= 4
                            /\ SubSeq(l_exe[k], Len(l_exe[k]) - 3,
                                      Len(l_exe[k])) = <<".", "a", "p", "p">>}
            IN /\ cmd.uid = Some(l_user.uid)
               /\ IF apps # {}
                  THEN /\ cmd.verb = <<"open", "-a">>
                       /\ \E k \in apps :
                            /\ \A j \in apps : j <= k
                            /\ cmd.target = SubSeq(l_exe, 1, k)
                       /\ cmd.rest = IF l_args = <<>> THEN <<>>
                                     ELSE <<"--args">> \o l_args
                  ELSE /\ cmd.verb = <<>>
                       /\ cmd.target = l_exe
                       /\ cmd.rest = l_args

\* An executable in a nested bundle launched with arguments: the inner
\* bundle is opened
C15_Witness ==
    /\ Len(spawns) >= 1
    /\ l_exe = <<AppM, <<"C">>, AppH, <<"h">>>>
    /\ spawns[1].cmd.target = <<AppM, <<"C">>, AppH>>
    /\ spawns[1].cmd.rest = <<"--args", "--token", "t">>

(***************************************************************************)
(* C16: get_console_user returns none when the console owner query cannot  *)
(* be run, when the owner, trimmed, is empty or is "root", and when the    *)
(* uid lookup cannot be run or answers something that is not a number; it  *)
(* returns a ConsoleUser only for a username with a numeric uid, and that  *)
(* ConsoleUser carries exactly that username and that uid.                 *)
(***************************************************************************)
C16_ConsoleUser ==
    (p_op = "get_console_user" /\ ppc = "done") =>
        LET owner ==
                CASE console = Ran(<<"a", "l", "\n">>) -> <<"a", "l">>
                  [] console = Ran(<<" ", "b", "o", " ", "\n">>) -> <<"b", "o">>
                  [] OTHER -> <<>>
        IN IF owner = <<>>
           THEN p_user = None /\ Len(plog) = 1
           ELSE /\ Len(plog) = 2
                /\ plog[2].program = "id"
                /\ plog[2].user = Some(owner)
                /\ LET uid ==
                           CASE plog[2].answer = Ran(<<"5", "0", "1", "\n">>)
                                    -> 501
                             [] plog[2].answer = Ran(<<" ", "0", "7", "\n">>)
                                    -> 7
                             [] plog[2].answer = Ran(<<"+", "9", "\n">>) -> 9
                             [] OTHER -> -1
                   IN p_user = IF uid = -1 THEN None
                               ELSE Some([username |-> owner, uid |-> uid])

\* The console belongs to root and get_console_user returned none
C16_Witness ==
    /\ p_op = "get_console_user"
    /\ ppc = "done"
    /\ console = Ran(NameRoot \o <<"\n">>)
    /\ p_user = None

(***************************************************************************)
(* C17: write with an empty list of pairs returns success and runs no      *)
(* subprocess and writes no preference, whatever the console session is.   *)
(***************************************************************************)
C17_EmptyWriteNoIO ==
    (p_op = "write" /\ p_prefs = <<>>) =>
        /\ plog = <<>>
        /\ store = store0
        /\ ppc = "done" => presult = Some(POk)

(***************************************************************************)
(* C18: where the preference store exists (macOS), write runs one          *)
(* `sudo -u <console user> defaults write` per pair, in the order of the   *)
(* pairs; the first write that fails, by spawn error or nonzero exit, ends *)
(* the call with an error and no later pair is written; a call that        *)
(* succeeds has written every pair.                                        *)
(***************************************************************************)
C18_InOrderStopAtFailure ==
    (p_op = "write" /\ platform = "macos") =>
        LET IsWrite(r) == r.program = "sudo"
            writes == SelectSeq(plog, IsWrite)
        IN /\ Len(writes) <= Len(p_prefs)
           /\ \A n \in 1..Len(writes) :
                /\ writes[n].key = p_prefs[n][1]
                /\ writes[n].value = p_prefs[n][2]
                /\ IsSome(p_user)
                /\ writes[n].user = Some(Unwrap(p_user).username)
                /\ n < Len(writes) => writes[n].answer = "ok"
           /\ (Len(writes) >= 1 /\ writes[Len(writes)].answer # "ok") =>
                /\ ppc = "done"
                /\ IsSome(presult)
                /\ ~Unwrap(presult).ok
                /\ Unwrap(presult).key = p_prefs[Len(writes)][1]
           /\ (ppc = "done" /\ presult = Some(POk)) =>
                /\ Len(writes) = Len(p_prefs)
                /\ \A n \in 1..Len(writes) : writes[n].answer = "ok"

\* The first of two pairs failed: the call returned its error after one
\* write
C18_Witness ==
    /\ p_op = "write"
    /\ ppc = "done"
    /\ Len(p_prefs) = 2
    /\ Len(plog) = 3
    /\ plog[3].answer = "nonzero"
    /\ presult = Some(PErr("write_exit", p_prefs[1][1]))

(***************************************************************************)
(* C19, as claimed: when write returns an error, none of its pairs has     *)
(* been applied, the store is as it was before the call.                   *)
(***************************************************************************)
C19_NoPartialApplication ==
    (/\ p_op = "write"
     /\ ppc = "done"
     /\ IsSome(presult)
     /\ ~Unwrap(presult).ok) => store = store0

(***************************************************************************)
(* C19, amended: when write returns an error because the write of pair k   *)
(* failed, pairs 1..k-1 have been applied to the store of the console      *)
(* user, in order, and pair k and the later pairs have not; when it        *)
(* returns an error because there is no console user, nothing has been     *)
(* applied; when it returns success on macOS all pairs have been applied.  *)
(***************************************************************************)
C19_PrefixApplied ==
    (p_op = "write" /\ platform = "macos" /\ ppc = "done") =>
        LET r == Unwrap(presult)
            failed == {k \in 1..Len(plog) : /\ plog[k].program = "sudo"
                                            /\ plog[k].answer # "ok"}
            attempted == Cardinality({k \in 1..Len(plog) :
                                         plog[k].program = "sudo"})
            applied == attempted - Cardinality(failed)
            Last(key) == CHOOSE j \in 1..applied :
                            /\ p_prefs[j][1] = key
                            /\ \A i \in (j + 1)..applied : p_prefs[i][1] # key
            Expected(u, key) ==
                IF /\ IsSome(p_user)
                   /\ u = Unwrap(p_user).username
                   /\ \E j \in 1..applied : p_prefs[j][1] = key
                THEN p_prefs[Last(key)][2]
                ELSE store0[u][key]
        IN /\ store = [u \in StoreUsers |->
                          [key \in PrefKeys |-> Expected(u, key)]]
           /\ r.ok => applied = Len(p_prefs)
           /\ r.step = "no_console_user" => applied = 0
           /\ r.step \in {"write_spawn", "write_exit"} =>
                /\ applied < Len(p_prefs)
                /\ attempted = applied + 1
                /\ r.key = p_prefs[applied + 1][1]

\* The second pair failed after the first was applied and changed the store
C19_Witness ==
    /\ p_op = "write"
    /\ ppc = "done"
    /\ Len(plog) = 4
    /\ plog[3].answer = "ok"
    /\ plog[4].answer = "spawn"
    /\ presult = Some(PErr("write_spawn", p_prefs[2][1]))
    /\ store # store0

(***************************************************************************)
(* C20: args_to_pairs returns one pair for each element that starts with   *)
(* "--", in the order of those elements: the key is the element without    *)
(* its "--", the value is the next element when there is one and it does   *)
(* not start with "--", and "1" otherwise; every other element is skipped. *)
(* ["--a", "--b", "v"] gives [(a, 1), (b, v)].                             *)
(***************************************************************************)
C20_ArgsToPairs ==
    apc = "done" =>
        LET IsFlag(k) == /\ Len(a_args[k]) >= 2
                         /\ a_args[k][1] = "-"
                         /\ a_args[k][2] = "-"
            flags == {k \in 1..Len(a_args) : IsFlag(k)}
            Nth(n) == CHOOSE k \in flags :
                         Cardinality({j \in flags : j < k}) = n - 1
            Key(k) == [c \in 1..(Len(a_args[k]) - 2) |-> a_args[k][c + 2]]
            Value(k) == IF k < Len(a_args) /\ ~IsFlag(k + 1)
                        THEN a_args[k + 1]
                        ELSE <<"1">>
        IN /\ Len(a_result) = Cardinality(flags)
           /\ \A n \in 1..Len(a_result) :
                a_result[n] = <<Key(Nth(n)), Value(Nth(n))>>
           /\ a_args = <<<<"-", "-", "a">>, <<"-", "-", "b">>, <<"v">>>> =>
                a_result = << <<<<"a">>, <<"1">>>>, <<<<"b">>, <<"v">>>> >>

\* ["--a", "--b", "v"] was scanned
C20_Witness ==
    /\ apc = "done"
    /\ a_args = <<<<"-", "-", "a">>, <<"-", "-", "b">>, <<"v">>>>
    /\ a_result = << <<<<"a">>, <<"1">>>>, <<<<"b">>, <<"v">>>> >>

(***************************************************************************)
(* C21: the console user is never cached.  Every call of get_console_user  *)
(* and of write asks for the owner the console has at that call: the       *)
(* username it goes on with, the user it returns and the user its writes   *)
(* run as are those of the present owner, also when an earlier call found  *)
(* another owner, and a call finds no user when the console has none now.  *)
(***************************************************************************)
C21_NeverCached ==
    ppc # "start" =>
        LET owner ==
                CASE console = Ran(<<"a", "l", "\n">>) -> <<"a", "l">>
                  [] console = Ran(<<" ", "b", "o", " ", "\n">>) -> <<"b", "o">>
                  [] OTHER -> <<>>
        IN /\ Len(plog) >= 1
           /\ plog[1].program = "stat"
           /\ plog[1].answer = console
           /\ ppc = "id" => p_name = Some(owner) /\ owner # <<>>
           /\ owner = <<>> => ppc = "done" /\ p_user = None
           /\ IsSome(p_user) => Unwrap(p_user).username = owner
           /\ \A n \in 1..Len(plog) :
                plog[n].program \in {"id", "sudo"} => plog[n].user = Some(owner)

\* The first call found al, the owner changed, and the second call wrote a
\* preference as bo
C21_Witness ==
    /\ Len(earlier) = 1
    /\ IsSome(earlier[1].user)
    /\ Unwrap(earlier[1].user).username = NameAl
    /\ p_op = "write"
    /\ ppc = "done"
    /\ presult = Some(POk)
    /\ Len(plog) = 3
    /\ plog[3].user = Some(NameBo)
    /\ store[NameBo]["k1"] = "v1"

(***************************************************************************)
(* C22: two concurrent calls of extract_all never share a temporary        *)
(* resource.  Their ids differ; a step of one call leaves alone the temp   *)
(* image file, the mount point and the mount of the other, and the         *)
(* other's destination entry, cleanup record and result; so a call that    *)
(* wrote its temp file still has it until it removes it itself, and a call *)
(* that mounted its image still has it mounted until it unmounts itself.   *)
(***************************************************************************)
C22_Isolated ==
    /\ [](\A c, d \in Calls :
            (c # d /\ IsSome(dmg_id[c]) /\ IsSome(dmg_id[d])) =>
                dmg_id[c] # dmg_id[d])
    /\ [](\A c \in Calls :
            /\ dpc[c] \in {"mount", "preclean", "copy", "unmount", "rmtemp"} =>
                  Unwrap(dmg_id[c]) \in tmp_files
            /\ dpc[c] \in {"preclean", "copy", "unmount"} =>
                  /\ Unwrap(dmg_id[c]) \in mounted
                  /\ Unwrap(dmg_id[c]) \in mount_dirs)
    /\ [][\A c \in Calls :
            (dpc'[c] = dpc[c] /\ IsSome(dmg_id[c])) =>
                LET id == Unwrap(dmg_id[c])
                IN /\ dmg_id'[c] = dmg_id[c]
                   /\ (id \in tmp_files') = (id \in tmp_files)
                   /\ (id \in mount_dirs') = (id \in mount_dirs)
                   /\ (id \in mounted') = (id \in mounted)
                   /\ dest'[c] = dest[c]
                   /\ copy_result'[c] = copy_result[c]
                   /\ cleanup_calls'[c] = cleanup_calls[c]
                   /\ dresult'[c] = dresult[c]]_vars

\* Call 1 has removed its temp file and returned while call 2 is between
\* its mount and its unmount, with its own file and mount in place
C22_Witness ==
    /\ dpc[1] = "done"
    /\ dresult[1] = Some(DOk)
    /\ cleanup_calls[1].remove_ok
    /\ dpc[2] = "copy"
    /\ Unwrap(dmg_id[2]) \in tmp_files
    /\ Unwrap(dmg_id[2]) \in mounted
    /\ Unwrap(dmg_id[1]) \notin tmp_files

(***************************************************************************)
(* C23: on a platform other than macOS extract_all returns the unsupported *)
(* error at once, whatever its input, and does no I/O: no temp file is     *)
(* written, no mount point is created, nothing is mounted, and the entry   *)
(* of the target directory is neither removed nor copied over.             *)
(***************************************************************************)
C23_UnsupportedNoIO ==
    \A c \in Calls :
        (platform # "macos" /\ dpc[c] # "idle") =>
            /\ dpc[c] = "done"
            /\ dresult[c] = Some(DErr("unsupported"))
            /\ dmg_id[c] = None
            /\ tmp_files = {}
            /\ mount_dirs = {}
            /\ mounted = {}
            /\ dest[c] = dest0[c]
            /\ copy_result[c] = None
            /\ cleanup_calls[c] = NoCleanup

\* Called off macOS with a source path, over an existing directory
C23_Witness ==
    \E c \in Calls :
        /\ platform = "other"
        /\ dpc[c] = "done"
        /\ source_path[c] = Some(<<AppM>>)
        /\ dest0[c].kind = "dir"
        /\ dresult[c] = Some(DErr("unsupported"))

(***************************************************************************)
(* C24: is_folder_extraction is true exactly when target_file_name has     *)
(* more than one path component, counted as Path::components counts: the   *)
(* root, a leading ".", and every name between separators other than ".".  *)
(* It is true for a/a/a and false for a single file name a.a, also when a  *)
(* separator follows it.                                                   *)
(***************************************************************************)
C24_FolderExtraction ==
    fpc = "done" =>
        LET n == Len(f_name)
            \* the positions where a name starts
            starts == {k \in 1..n : /\ f_name[k] # "/"
                                    /\ (k = 1 \/ f_name[k - 1] = "/")}
            IsDot(k) == /\ f_name[k] = "."
                        /\ (k = n \/ f_name[k + 1] = "/")
            names == {k \in starts : ~IsDot(k) \/ k = 1}
            root == IF n >= 1 /\ f_name[1] = "/" THEN 1 ELSE 0
        IN /\ f_result = Some(Cardinality(names) + root > 1)
           /\ f_name = <<"a", "/", "a", "/", "a">> => f_result = Some(TRUE)
           /\ f_name = <<"a", ".", "a">> => f_result = Some(FALSE)
           /\ f_name = <<"a", ".", "a", "/">> => f_result = Some(FALSE)

\* A single file name followed by a separator
C24_Witness ==
    /\ fpc = "done"
    /\ f_name = <<"a", ".", "a", "/">>
    /\ f_result = Some(FALSE)

(***************************************************************************)
(* C25, as claimed: at no time are two per-tool uninstall procedures in    *)
(* progress, also when two callers invoke uninstall_all concurrently.  A   *)
(* procedure is in progress from its process stop until it returns.        *)
(***************************************************************************)
InProgress(c) == upc[c] \in {"aux", "args", "resolve", "path", "exec", "cleanup"}

C25_NoParallelUninstall ==
    \A c, d \in Callers : (InProgress(c) /\ InProgress(d)) => c = d

(***************************************************************************)
(* C25, amended: within one call of uninstall_all at most one per-tool     *)
(* procedure is in progress at any time: the tools that have been stopped  *)
(* for a caller and have not returned are none, or the one tool that       *)
(* caller is at.  Nothing orders the procedures of two concurrent callers. *)
(***************************************************************************)
C25_SequentialPerCall ==
    \A c \in Callers :
        LET open == {i \in 1..Len(installed_tools[c]) :
                        /\ \E k \in 1..Len(ulog) :
                              /\ ulog[k].caller = c
                              /\ ulog[k].tool = i
                              /\ ulog[k].step = "stop"
                        /\ ~\E k \in 1..Len(ulog) :
                              /\ ulog[k].caller = c
                              /\ ulog[k].tool = i
                              /\ ulog[k].step = "return"}
        IN IF InProgress(c) THEN open = {idx[c]} ELSE open = {}

\* Each caller is at its second tool, after its first tool returned, and
\* both procedures are in progress
C25_Witness ==
    /\ idx[1] = 2
    /\ idx[2] = 2
    /\ upc[1] = "cleanup"
    /\ upc[2] = "cleanup"

(***************************************************************************)
(* C26: stop_asset("osqueryd", id) is invoked for a tool exactly when its  *)
(* identifier contains "fleet" in any letter case.  It comes directly      *)
(* after the tool's own process stop succeeded, before the resolver, the   *)
(* command and the bundle cleanup, and when it fails the tool returns an   *)
(* error at once and uninstall_all returns that error, naming the tool.    *)
(***************************************************************************)
C26_AuxStop ==
    \A c \in Callers :
        LET IsMine(e) == e.caller = c /\ e.tool > 0
            mine == SelectSeq(ulog, IsMine)
            n == Len(mine)
            Id(k) == installed_tools[c][mine[k].tool].tool_agent_id
            Fleet(k) == Id(k) \in {<<"f", "l", "e", "e", "t">>,
                                   <<"x", "F", "L", "e", "E", "T">>}
        IN \A k \in 1..n :
             /\ mine[k].step = "aux_stop" =>
                   /\ Fleet(k)
                   /\ k > 1
                   /\ mine[k - 1].tool = mine[k].tool
                   /\ mine[k - 1].step = "stop"
                   /\ mine[k - 1].ok
             /\ (mine[k].step = "stop" /\ mine[k].ok /\ Fleet(k)) =>
                   IF k < n
                   THEN /\ mine[k + 1].step = "aux_stop"
                        /\ mine[k + 1].tool = mine[k].tool
                   ELSE upc[c] = "aux"
             /\ mine[k].step \in {"resolve", "path_check", "spawn", "exec",
                                  "cleanup", "remove_dir_all"} =>
                   /\ k > 1
                   /\ mine[k - 1].tool = mine[k].tool
                   /\ Fleet(k) => mine[k - 1].step # "stop"
                   /\ mine[k - 1].step = "aux_stop" => mine[k - 1].ok
             /\ (mine[k].step = "aux_stop" /\ ~mine[k].ok) =>
                   /\ k + 1 = n
                   /\ mine[n].step = "return"
                   /\ mine[n].tool = mine[k].tool
                   /\ ~mine[n].ok
                   /\ upc[c] = "done"
                   /\ IsSome(uresult[c])
                   /\ ~Unwrap(uresult[c]).ok
                   /\ Unwrap(uresult[c]).step = "stop_asset"
                   /\ Unwrap(uresult[c]).tool = Some(Id(k))

\* The first tool returned; the second, xFLeET, failed at stop_asset
C26_Witness ==
    \E c \in Callers :
        /\ DidOk(c, 1, "return")
        /\ DidFail(c, 2, "aux_stop")
        /\ ToolOf(c, 2).tool_agent_id = <<"x", "F", "L", "e", "E", "T">>
        /\ upc[c] = "done"

(***************************************************************************)
(* C27: a collaborator step that fails ends the tool's procedure at that   *)
(* step.  After a failed process stop there is no auxiliary stop, resolver *)
(* call, command or bundle cleanup for the tool; after a failed resolver   *)
(* no command and no cleanup; after a command that could not be spawned no *)
(* cleanup; the tool returns the error and uninstall_all returns it,       *)
(* naming the tool and the step.                                           *)
(***************************************************************************)
C27_FailingStepFatal ==
    \A c \in Callers :
        LET IsMine(e) == e.caller = c /\ e.tool > 0
            mine == SelectSeq(ulog, IsMine)
            n == Len(mine)
        IN \A k \in 1..n :
             (mine[k].step \in {"stop", "resolve", "spawn"} /\ ~mine[k].ok) =>
                 /\ k + 1 = n
                 /\ mine[n].step = "return"
                 /\ mine[n].tool = mine[k].tool
                 /\ ~mine[n].ok
                 /\ \A j \in 1..(k - 1) :
                      mine[j].tool = mine[k].tool =>
                          mine[j].step \notin {"cleanup", "remove_dir_all"}
                 /\ mine[k].step = "stop" =>
                      \A j \in 1..(k - 1) : mine[j].tool # mine[k].tool
                 /\ mine[k].step = "resolve" =>
                      \A j \in 1..(k - 1) :
                          mine[j].tool = mine[k].tool =>
                              mine[j].step \in {"stop", "aux_stop"}
                 /\ upc[c] = "done"
                 /\ IsSome(uresult[c])
                 /\ ~Unwrap(uresult[c]).ok
                 /\ Unwrap(uresult[c]).tool =
                        Some(installed_tools[c][mine[k].tool].tool_agent_id)
                 /\ Unwrap(uresult[c]).step =
                        CASE mine[k].step = "stop" -> "stop"
                          [] mine[k].step = "resolve" -> "process"
                          [] OTHER -> "spawn"

\* The resolver failed for the GuiApp tool m: its bundle is still there
C27_Witness ==
    \E c \in Callers :
        /\ DidFail(c, 1, "resolve")
        /\ ToolOf(c, 1).tool_agent_id = <<"m">>
        /\ platform = "macos"
        /\ BundleM \in fs
        /\ upc[c] = "done"

C29_ResolversAgree ==
    (IsSome(r_delete) /\ IsSome(r_open)) => r_delete = r_open

====
